---- MODULE Spec2Model ----
(***************************************************************************)
(* Model of the decision-memory subsystem of fudsniff                      *)
(* (backend/agents/rag_system.py): RAGManager keeps signal records in a    *)
(* SQLite table, in an in-memory list and in a FAISS inner-product index.  *)
(* One action per public operation; each action is the whole method.       *)
(* The specifications of sequential hosts keep the lock free and the       *)
(* threads idle; SpecThreads follows calls made by threads at once, one    *)
(* action per step between two points where another thread can run.        *)
(***************************************************************************)
EXTENDS Integers, Sequences, FiniteSets

VARIABLES
    signals,         \* the rows of the SQLite table signals (PRIMARY KEY signal_id)
    signal_records,  \* RAGManager.signal_records, a Python list
    index,           \* RAGManager.index: None, or a faiss.IndexFlatIP
    ret,             \* the last call: its operation, arguments and outcome
    improvements,    \* the rows of the SQLite table improvements (PRIMARY KEY action_id)
    improvement_actions,     \* RAGManager.improvement_actions, a Python list
    last_improvement_check,  \* SelfImprovingAgent.last_improvement_check
    now,             \* the wall clock that datetime.now() reads
    lock,            \* RAGManager.lock, a threading.Lock: its holder, 0 when free
    threads          \* the host's threads: the call each is in and its position

\* the state of the improvement scheduler and the clock
agent_vars == <<improvements, improvement_actions, last_improvement_check, now>>

\* the lock and the positions of the threads
thread_vars == <<lock, threads>>

vars == <<signals, signal_records, index, ret, improvements, improvement_actions,
          last_improvement_check, now, lock, threads>>

----------------------------------------------------------------------------
\* Bounds of the model.

\* a history for the improvement check has at most MaxFailures recent failures
MaxFailures == 4
\* and at most MaxOlder successes older than the recent window
MaxOlder == 2
\* calls that read the clock are taken during MaxClock ticks after Epoch
MaxClock == 3
\* a context analysis handed to the adjustment counts 0..MaxSimilar records
MaxSimilar == 11
\* an instance starts on a history of at most MaxHistory records
MaxHistory == 2
\* update_signal_outcome is called with the ids 1..MaxId
MaxId == 2
\* times are half-second ticks; cleanup cutoffs are 1..MaxTime+1
MaxTime == 2
\* store_signal is taken while the list holds fewer than MaxRecords records
MaxRecords == 2
\* store_signal is taken while the index holds fewer than MaxIndex vectors
MaxIndex == 3
\* find_similar_signals is called with limit in 1..MaxLimit
MaxLimit == 2
\* threads of the host; each makes one call that takes the lock
MaxThreads == 2

SignalIds == 1..MaxId
Cutoffs == 1..(MaxTime + 1)
Limits == 1..MaxLimit

----------------------------------------------------------------------------
\* Values.

\* SignalOutcome
SignalOutcome == {"success", "failure", "partial", "pending"}

\* the decision types named by the comment on SignalRecord.signal_type
KnownSignalTypes == {"BUY", "SELL", "HOLD"}
\* the signal_type values callers pass; "MOON" is not a known decision type
SignalTypes == {"BUY", "SELL", "MOON"}

\* confidences are in hundredths: 80 is 0.8 and 120 is 1.2, outside [0,1]

\* Optional[Dict[str, float]]: None, or a dict given as a set of <<key, value>>
NoMetrics == [present |-> FALSE, kv |-> {}]
SomeMetrics == [present |-> TRUE, kv |-> {<<"pnl", 3>>}]

\* Python truthiness of an Optional[Dict]: None and {} are falsy
Truthy(m) == m.present /\ m.kv # {}

\* Optional[np.ndarray]: None is the empty tuple
NoEmbedding == <<>>

\* Times are counted in half seconds.
Hour == 2 * 3600
Day == 24 * Hour

\* the clock reading at which the first instance is constructed
Epoch == 30 * Day

\* datetime.isoformat(): the fraction is written only when microsecond # 0.
\* A timestamp t is t half-seconds; the string is the tuple of its fields.
isoformat(t) == IF t % 2 = 0 THEN <<t \div 2>> ELSE <<t \div 2, 5>>

\* datetime.fromisoformat()
fromisoformat(s) == IF Len(s) = 1 THEN 2 * s[1] ELSE 2 * s[1] + 1

\* SQLite's comparison of two TEXT values: lexicographic, a proper prefix first
TextLess(a, b) ==
    \/ a[1] < b[1]
    \/ /\ a[1] = b[1]
       /\ \/ Len(a) < Len(b)
          \/ Len(a) = 2 /\ Len(b) = 2 /\ a[2] < b[2]

\* json.dumps(m) if m else None, read back by json.loads(row) if row else None
MetricsColumn(m) == IF Truthy(m) THEN m ELSE NoMetrics

\* SentenceTransformer.encode of the text "{token_symbol} {signal_type} {reasoning}";
\* token_symbol and reasoning are fixed, the text varies with signal_type.
\* all-MiniLM-L6-v2 yields vectors of one norm (here 5).
encode(signal_type) ==
    CASE signal_type = "BUY"  -> <<5, 0>>
      [] signal_type = "SELL" -> <<3, 4>>
      [] OTHER                -> <<-4, 3>>

\* inner product, the metric of faiss.IndexFlatIP
InnerProduct(u, v) == u[1] * v[1] + u[2] * v[2]

\* the similarity faiss reports at a padding position (-3.4e38)
PadSimilarity == -1000

----------------------------------------------------------------------------
\* Records, rows and the index.

\* a SignalRecord as callers build it: outcome PENDING, no metrics, no embedding
NewSignal(id, t, ty, c) ==
    [signal_id |-> id, timestamp |-> t, signal_type |-> ty, confidence |-> c,
     outcome |-> "pending", performance_metrics |-> NoMetrics,
     embedding |-> NoEmbedding]

\* the tuple bound to INSERT OR REPLACE INTO signals
Row(signal) ==
    [signal_id |-> signal.signal_id,
     timestamp |-> isoformat(signal.timestamp),
     signal_type |-> signal.signal_type,
     confidence |-> signal.confidence,
     outcome |-> signal.outcome,
     performance_metrics |-> MetricsColumn(signal.performance_metrics),
     embedding |-> signal.embedding]

\* the SignalRecord built from a row of SELECT * FROM signals
FromRow(row) ==
    [signal_id |-> row.signal_id,
     timestamp |-> fromisoformat(row.timestamp),
     signal_type |-> row.signal_type,
     confidence |-> row.confidence,
     outcome |-> row.outcome,
     performance_metrics |-> row.performance_metrics,
     embedding |-> row.embedding]

\* the tuple bound to INSERT OR REPLACE INTO improvements
ActionRow(improvement) == [improvement EXCEPT !.timestamp = isoformat(@)]

\* the ImprovementAction built from a row of SELECT * FROM improvements
ActionFromRow(row) == [row EXCEPT !.timestamp = fromisoformat(@)]

\* the records hosts store: two ids, the second record of id 1 has another
\* timestamp, another text and a confidence of 1.2; "MOON" is no decision type
Candidates ==
    {NewSignal(1, 1, "BUY", 80), NewSignal(2, 2, "SELL", 80),
     NewSignal(1, 2, "SELL", 120), NewSignal(2, 1, "MOON", 80)}

\* a second performance_metrics dict, with another key
OtherMetrics == [present |-> TRUE, kv |-> {<<"roi", 2>>}]

\* the (outcome, performance_metrics) pairs of the records of a history
HistoryResolutions ==
    {<<"pending", NoMetrics>>, <<"success", SomeMetrics>>,
     <<"failure", OtherMetrics>>, <<"failure", NoMetrics>>}

\* the ages of the records of a history: inside the recent window, and
\* inside the baseline window only
Ages == {Day, 10 * Day}

\* a stored record of a history: its embedding is the one store_signal made
HistorySignal(id, age, resolution) ==
    [NewSignal(id, Epoch - age, "BUY", 80) EXCEPT
        !.outcome = resolution[1],
        !.performance_metrics = resolution[2],
        !.embedding = encode("BUY")]

\* the histories an instance starts on: the records 1..n, stored and resolved
\* by earlier calls
Histories ==
    UNION {{[i \in 1..n |-> HistorySignal(i, ages[i], res[i])] :
               ages \in [1..n -> Ages], res \in [1..n -> HistoryResolutions]} :
           n \in 0..MaxHistory}

\* n copies of x
Repeat(x, n) == [i \in 1..n |-> x]

\* the histories the improvement check runs on: recent failures of
\* confidence 0.8 and 0.6, recent successes, older successes
ImproveHistories ==
    {LET kinds == Repeat(<<Day, "failure", 80>>, high) \o Repeat(<<Day, "failure", 60>>, low)
                    \o Repeat(<<Day, "success", 80>>, recent)
                    \o Repeat(<<10 * Day, "success", 80>>, older)
     IN  [i \in DOMAIN kinds |->
             [HistorySignal(i, kinds[i][1], <<kinds[i][2], NoMetrics>>)
                 EXCEPT !.confidence = kinds[i][3]]] :
     high \in 0..MaxFailures, low \in 0..MaxFailures,
     recent \in 0..1, older \in 0..MaxOlder}

\* the (outcome, performance_metrics) pairs hosts resolve a signal with
Resolutions == {<<"success", SomeMetrics>>, <<"failure", NoMetrics>>}

\* self.index = None
NoIndex == [built |-> FALSE, vectors |-> <<>>]

\* self.index.ntotal if self.index else 0
ntotal(idx) == IF idx.built THEN Len(idx.vectors) ELSE 0

\* the orders in which SELECT * FROM signals ORDER BY timestamp DESC may
\* return the rows: SQL leaves the order of equal timestamps open
LoadOrders(tbl) ==
    {s \in [1..Cardinality(tbl) -> tbl] :
        /\ \A i, j \in DOMAIN s : i # j => s[i] # s[j]
        /\ \A i, j \in DOMAIN s : i < j => ~TextLess(s[i].timestamp, s[j].timestamp)}

\* the list comprehension [s for s in recs if keep(s)], for keep = timestamp >= cutoff
RECURSIVE NotOlder(_, _)
NotOlder(recs, cutoff) ==
    IF recs = <<>> THEN <<>>
    ELSE LET rest == NotOlder(Tail(recs), cutoff)
         IN  IF Head(recs).timestamp >= cutoff THEN <<Head(recs)>> \o rest ELSE rest

\* [s.embedding for s in recs if s.embedding is not None]
RECURSIVE Embeddings(_)
Embeddings(recs) ==
    IF recs = <<>> THEN <<>>
    ELSE IF Head(recs).embedding # NoEmbedding
         THEN <<Head(recs).embedding>> \o Embeddings(Tail(recs))
         ELSE Embeddings(Tail(recs))

\* _build_index: embeds the records that have no embedding (writing each
\* embedding to its row), then replaces the index by one over all embeddings.
\* With no records it returns at once and leaves the index as it is.
build_index(recs, idx, tbl) ==
    IF recs = <<>>
    THEN [records |-> recs, index |-> idx, signals |-> tbl]
    ELSE LET embedded == [i \in DOMAIN recs |->
                 IF recs[i].embedding = NoEmbedding
                 THEN [recs[i] EXCEPT !.embedding = encode(recs[i].signal_type)]
                 ELSE recs[i]]
             missing(id) == {i \in DOMAIN recs :
                 recs[i].embedding = NoEmbedding /\ recs[i].signal_id = id}
             last(S) == CHOOSE i \in S : \A j \in S : j <= i
             tbl2 == {IF missing(row.signal_id) = {} THEN row
                      ELSE [row EXCEPT !.embedding =
                               embedded[last(missing(row.signal_id))].embedding] :
                      row \in tbl}
             embeddings == Embeddings(embedded)
         IN  [records |-> embedded,
              index |-> IF Len(embeddings) > 0
                        THEN [built |-> TRUE, vectors |-> embeddings]
                        ELSE idx,
              signals |-> tbl2]

\* _incremental_index_update without the self.index.add of its else branch
incremental_index_update_without_add(recs, idx, tbl, signal) ==
    IF ~idx.built
    THEN build_index(recs, idx, tbl)
    ELSE [records |-> recs, index |-> idx, signals |-> tbl]

\* _incremental_index_update, called with the new record already appended
incremental_index_update(recs, idx, tbl, signal) ==
    IF ~idx.built
    THEN build_index(recs, idx, tbl)
    ELSE [records |-> recs,
          index |-> IF signal.embedding # NoEmbedding
                    THEN [idx EXCEPT !.vectors = Append(@, signal.embedding)]
                    ELSE idx,
          signals |-> tbl]

\* faiss IndexFlatIP.search(query, k): the k best ordinals (0-based) by
\* descending inner product, equal scores by ascending ordinal, padded with
\* -1 when the index holds fewer than k vectors
search(idx, query, k) ==
    LET n == Len(idx.vectors)
        sim(i) == InnerProduct(idx.vectors[i + 1], query)
        before(j, i) == sim(j) > sim(i) \/ (sim(j) = sim(i) /\ j < i)
        rank(i) == Cardinality({j \in 0..(n - 1) : before(j, i)})
    IN  [r \in 1..k |->
            IF r <= n
            THEN LET i == CHOOSE i \in 0..(n - 1) : rank(i) = r - 1
                 IN  [idx |-> i, similarity |-> sim(i)]
            ELSE [idx |-> -1, similarity |-> PadSimilarity]]

\* self.signal_records[idx] for a Python list index: -1 is the last element
ListItem(recs, i) == IF i >= 0 THEN recs[i + 1] ELSE recs[Len(recs) + 1 + i]

\* the loop of find_similar_signals over the hits: keeps those with
\* idx < len(self.signal_records)
RECURSIVE Results(_, _)
Results(recs, hits) ==
    IF hits = <<>> THEN <<>>
    ELSE LET h == Head(hits)
             rest == Results(recs, Tail(hits))
         IN  IF h.idx < Len(recs)
             THEN <<[signal |-> ListItem(recs, h.idx), similarity |-> h.similarity]>> \o rest
             ELSE rest

\* find_similar_signals(query_signal, limit)
find_similar_signals(recs, idx, query_type, limit) ==
    IF ~idx.built \/ Len(recs) = 0 THEN <<>>
    ELSE Results(recs, search(idx, encode(query_type), limit))

----------------------------------------------------------------------------
\* Performance metrics.

\* sum(values)
RECURSIVE Sum(_)
Sum(values) == IF values = <<>> THEN 0 ELSE Head(values) + Sum(Tail(values))

\* the float n / d, kept as the fraction; d = 0 raises ZeroDivisionError
Quotient(n, d) == [num |-> n, den |-> d]

\* the windows the improvement check measures, in days
RecentDays == 7
BaselineDays == 14

\* the empty dict {} that get_performance_metrics returns
NoPerformance ==
    [empty |-> TRUE, raised |-> FALSE, total_signals |-> 0,
     success_rate |-> Quotient(0, 1), avg_confidence |-> Quotient(0, 1),
     successful_signals |-> 0, failed_signals |-> 0, partial_signals |-> 0,
     averages |-> {}]

\* dict.keys() of a performance_metrics dict
Keys(m) == {p[1] : p \in m.kv}

\* the statements of get_performance_metrics after its early return; the
\* averages are the pairs <<key, sum(values) / len(values)>> of **performance_metrics
Measured(recent_signals) ==
    LET total_signals == Len(recent_signals)
        count(outcome) == Len(SelectSeq(recent_signals, LAMBDA s : s.outcome = outcome))
        confidences == [i \in DOMAIN recent_signals |-> recent_signals[i].confidence]
        signals_with_metrics ==
            SelectSeq(recent_signals, LAMBDA s : Truthy(s.performance_metrics))
        having(key) ==
            SelectSeq(signals_with_metrics, LAMBDA s : key \in Keys(s.performance_metrics))
        values(key) ==
            [i \in DOMAIN having(key) |->
                (CHOOSE p \in having(key)[i].performance_metrics.kv : p[1] = key)[2]]
        keys == IF signals_with_metrics # <<>>
                THEN Keys(signals_with_metrics[1].performance_metrics)
                ELSE {}
    IN  [empty |-> FALSE,
         raised |-> total_signals = 0,
         total_signals |-> total_signals,
         success_rate |-> IF total_signals > 0
                          THEN Quotient(count("success"), total_signals)
                          ELSE Quotient(0, 1),
         avg_confidence |-> Quotient(Sum(confidences), total_signals),
         successful_signals |-> count("success"),
         failed_signals |-> count("failure"),
         partial_signals |-> count("partial"),
         averages |-> {<<key, Quotient(Sum(values(key)), Len(values(key)))>> : key \in keys}]

\* the resolved records of the window: timestamp >= cutoff_date and not PENDING
Recent(recs, t, days) ==
    SelectSeq(recs, LAMBDA s : s.timestamp >= t - days * Day /\ s.outcome # "pending")

\* get_performance_metrics without "if not recent_signals: return {}"
get_performance_metrics_without_return(recs, t, days) ==
    Measured(Recent(recs, t, days))

\* get_performance_metrics(days), with datetime.now() = t
get_performance_metrics(recs, t, days) ==
    IF Recent(recs, t, days) = <<>> THEN NoPerformance
    ELSE Measured(Recent(recs, t, days))

----------------------------------------------------------------------------
\* Confidence adjustment.  Floats are kept as fractions with a positive
\* denominator; confidences are counted in hundredths.

Less(a, b) == a.num * b.den < b.num * a.den
Times(a, b) == Quotient(a.num * b.num, a.den * b.den)
Plus(a, b) == Quotient(a.num * b.den + b.num * a.den, a.den * b.den)
Minus(a, b) == Quotient(a.num * b.den - b.num * a.den, a.den * b.den)

\* Python's min(a, b) and max(a, b): the first argument unless the second
\* is smaller (greater)
Min(a, b) == IF Less(b, a) THEN b ELSE a
Max(a, b) == IF Less(a, b) THEN b ELSE a

\* float(similarity): the inner product of two vectors of the model's norm
Cosine(ip) == Quotient(ip, InnerProduct(encode("BUY"), encode("BUY")))

\* _analyze_historical_context without "if not similar_signals: return"; a
\* fraction with denominator 0 stands for the ZeroDivisionError
analyze_historical_context_without_guard(similar_signals) ==
    LET n == Len(similar_signals)
        successful_signals ==
            SelectSeq(similar_signals, LAMBDA s : s.signal.outcome = "success")
        confidences == [i \in 1..n |-> similar_signals[i].signal.confidence]
        similarities == [i \in 1..n |-> similar_signals[i].similarity]
    IN  [success_rate |-> Quotient(Len(successful_signals), n),
         avg_confidence |-> Quotient(Sum(confidences), n),
         avg_similarity |-> <<Times(Cosine(Sum(similarities)), Quotient(1, n))>>,
         total_similar |-> n]

\* _analyze_historical_context(similar_signals); avg_similarity is <<>> when
\* the dict has no such key
analyze_historical_context(similar_signals) ==
    IF similar_signals = <<>>
    THEN [success_rate |-> Quotient(1, 2), avg_confidence |-> Quotient(50, 1),
          avg_similarity |-> <<>>, total_similar |-> 0]
    ELSE LET n == Len(similar_signals)
             successful_signals ==
                 SelectSeq(similar_signals, LAMBDA s : s.signal.outcome = "success")
             confidences == [i \in 1..n |-> similar_signals[i].signal.confidence]
             similarities == [i \in 1..n |-> similar_signals[i].similarity]
         IN  [success_rate |-> Quotient(Len(successful_signals), n),
              avg_confidence |-> Quotient(Sum(confidences), n),
              avg_similarity |-> <<Times(Cosine(Sum(similarities)), Quotient(1, n))>>,
              total_similar |-> n]

\* final_adjustment of _calculate_confidence_adjustment, before the cap
final_adjustment(context_analysis) ==
    LET success_rate == context_analysis.success_rate
        avg_similarity == IF context_analysis.avg_similarity = <<>>
                          THEN Quotient(1, 2)
                          ELSE context_analysis.avg_similarity[1]
        total_similar == context_analysis.total_similar
        base_adjustment == Times(Minus(success_rate, Quotient(1, 2)), Quotient(3, 10))
        similarity_weight == Min(avg_similarity, Quotient(9, 10))
        sample_weight == Min(Quotient(total_similar, 10), Quotient(1, 1))
    IN  Times(Times(base_adjustment, similarity_weight), sample_weight)

\* _calculate_confidence_adjustment without the cap at +-0.3
calculate_confidence_adjustment_without_cap(context_analysis) ==
    final_adjustment(context_analysis)

\* _calculate_confidence_adjustment(context_analysis)
calculate_confidence_adjustment(context_analysis) ==
    Max(Quotient(-3, 10), Min(Quotient(3, 10), final_adjustment(context_analysis)))

\* adjusted_confidence of _apply_context_adjustments
apply_context_adjustments(original_confidence, context_adjustment) ==
    Max(Quotient(0, 1),
        Min(Quotient(1, 1), Plus(Quotient(original_confidence, 100), context_adjustment)))

\* the analyses handed to process_signal_with_context: signal_type and confidence
Analyses ==
    <<[signal_type |-> "BUY", confidence |-> 80],
      [signal_type |-> "SELL", confidence |-> 60]>>

\* hashlib.md5(f"{signal_data}{datetime.now()}").hexdigest() without the clock
md5_without_clock(k, t) == MaxId + k

\* hashlib.md5(f"{signal_data}{datetime.now()}").hexdigest() for the k-th
\* analysis at the clock reading t: one id for each text, none of 1..MaxId
md5(k, t) == MaxId + Len(Analyses) * t + k

\* find_similar_signals(signal_data, limit=10)
SearchLimit == 10
\* similar_signals[:5]
ContextLimit == 5

\* the slice s[:n]
Take(s, n) == SubSeq(s, 1, IF Len(s) < n THEN Len(s) ELSE n)

\* the historical_context entries of the enhanced signal
historical_context(similar_signals) ==
    LET top == Take(similar_signals, ContextLimit)
    IN  [i \in DOMAIN top |->
            [signal_id |-> top[i].signal.signal_id,
             similarity |-> Cosine(top[i].similarity),
             outcome |-> top[i].signal.outcome,
             confidence |-> top[i].signal.confidence,
             timestamp |-> isoformat(top[i].signal.timestamp)]]

----------------------------------------------------------------------------
\* The outcome of a call.

Ret(op) ==
    [op |-> op, error |-> "none", count |-> 0, results |-> <<>>,
     performance |-> NoPerformance,
     context_analysis |-> analyze_historical_context(<<>>),
     original_confidence |-> 0,
     adjustment |-> Quotient(0, 1),
     confidence |-> Quotient(0, 1),
     signal_id |-> 0,
     historical_context |-> <<>>,
     reached |-> FALSE,
     evaluation |-> <<>>,
     stats |-> [total_signals |-> 0, index_size |-> 0]]

\* get_stats(): total_signals and index_size
Stats(recs, idx) == [total_signals |-> Len(recs), index_size |-> ntotal(idx)]

\* the threads of the host that call into the instance
Threads == 1..MaxThreads

\* a thread that has not called yet: the call it is in, the record its
\* store_signal appended and the actions its evaluation has still to store
Idle == [op |-> "none", pc |-> "idle", signal |-> <<>>, pending |-> <<>>]

----------------------------------------------------------------------------
\* State after RAGManager.__init__ on a new database file.

Init ==
    /\ signals = {}
    /\ signal_records = <<>>
    /\ index = NoIndex
    /\ ret = Ret("init")
    /\ improvements = {}
    /\ improvement_actions = <<>>
    /\ now = Epoch
    /\ last_improvement_check = Epoch
    /\ lock = 0
    /\ threads = [t \in Threads |-> Idle]

\* RAGManager.__init__ on the database file as it is: a new instance that
\* loads the rows (_load_existing_data) and builds the index (_build_index);
\* SelfImprovingAgent.__init__ then sets last_improvement_check
ColdStart ==
    \E loaded \in LoadOrders(signals), actions \in LoadOrders(improvements) :
        LET recs == [i \in DOMAIN loaded |-> FromRow(loaded[i])]
            built == build_index(recs, NoIndex, signals)
        IN  /\ signal_records' = built.records
            /\ index' = built.index
            /\ signals' = built.signals
            /\ ret' = Ret("init")
            /\ improvement_actions' = [i \in DOMAIN actions |-> ActionFromRow(actions[i])]
            /\ last_improvement_check' = now
            /\ UNCHANGED <<improvements, now, lock, threads>>

\* store_signal with the INSERT OR REPLACE moved before model.encode: a
\* failing embedding leaves a row without embedding behind
store_signal_write_before_embed(signal, embed_fails, db_fails) ==
    LET embedded == [signal EXCEPT !.embedding = encode(signal.signal_type)]
        others == {row \in signals : row.signal_id # signal.signal_id}
        recs == Append(signal_records, embedded)
        upd == incremental_index_update(recs, index, others \cup {Row(embedded)}, embedded)
    IN  IF db_fails
        THEN /\ ret' = [Ret("store") EXCEPT !.error = "StorageError"]
             /\ UNCHANGED <<signals, signal_records, index>>
        ELSE IF embed_fails
        THEN /\ signals' = others \cup {Row(signal)}
             /\ ret' = [Ret("store") EXCEPT !.error = "EmbeddingError"]
             /\ UNCHANGED <<signal_records, index>>
        ELSE /\ signals' = upd.signals
             /\ signal_records' = upd.records
             /\ index' = upd.index
             /\ ret' = Ret("store")

\* the body of store_signal(signal): embed, INSERT OR REPLACE, append, update
\* the index.  embed_fails: model.encode raises; db_fails: the SQLite write
\* raises.  r is the outcome of the call when nothing is raised.
store_signal_as(r, signal, embed_fails, db_fails) ==
    LET embedded == IF signal.embedding = NoEmbedding
                    THEN [signal EXCEPT !.embedding = encode(signal.signal_type)]
                    ELSE signal
        tbl == {row \in signals : row.signal_id # signal.signal_id} \cup {Row(embedded)}
        recs == Append(signal_records, embedded)
        upd == incremental_index_update(recs, index, tbl, embedded)
    IN  IF signal.embedding = NoEmbedding /\ embed_fails
        THEN /\ ret' = [r EXCEPT !.error = "EmbeddingError"]
             /\ UNCHANGED <<signals, signal_records, index>>
        ELSE IF db_fails
        THEN /\ ret' = [r EXCEPT !.error = "StorageError"]
             /\ UNCHANGED <<signals, signal_records, index>>
        ELSE /\ signals' = upd.signals
             /\ signal_records' = upd.records
             /\ index' = upd.index
             /\ ret' = r

\* store_signal(signal), called by a host
store_signal(signal, embed_fails, db_fails) ==
    store_signal_as(Ret("store"), signal, embed_fails, db_fails)

\* the enhanced signal (with the adjusted confidence of
\* _apply_context_adjustments) for the k-th analysis
enhanced_signal(k, signal_id, similar_signals) ==
    LET context_analysis == analyze_historical_context(similar_signals)
        adjustment == calculate_confidence_adjustment(context_analysis)
    IN  [Ret("process") EXCEPT
            !.signal_id = signal_id,
            !.results = similar_signals,
            !.historical_context = historical_context(similar_signals),
            !.context_analysis = context_analysis,
            !.adjustment = adjustment,
            !.original_confidence = Analyses[k].confidence,
            !.confidence = apply_context_adjustments(Analyses[k].confidence, adjustment)]

\* process_signal_with_context with store_signal called before
\* find_similar_signals
process_signal_with_context_store_first(k, embed_fails, db_fails) ==
    LET signal_id == md5(k, now)
        signal == [NewSignal(signal_id, now, Analyses[k].signal_type, Analyses[k].confidence)
                      EXCEPT !.embedding = encode(Analyses[k].signal_type)]
        tbl == signals \cup {Row(signal)}
        upd == incremental_index_update(Append(signal_records, signal), index, tbl, signal)
        similar_signals ==
            find_similar_signals(upd.records, upd.index, Analyses[k].signal_type, SearchLimit)
    IN  /\ now' = now + 1
        /\ UNCHANGED <<improvements, improvement_actions, last_improvement_check>>
        /\ IF embed_fails
           THEN /\ ret' = [Ret("process") EXCEPT !.error = "EmbeddingError"]
                /\ UNCHANGED <<signals, signal_records, index>>
           ELSE IF db_fails
           THEN /\ ret' = [Ret("process") EXCEPT !.error = "StorageError"]
                /\ UNCHANGED <<signals, signal_records, index>>
           ELSE /\ signals' = upd.signals
                /\ signal_records' = upd.records
                /\ index' = upd.index
                /\ ret' = enhanced_signal(k, signal_id, similar_signals)

\* process_signal_with_context(signal_data) for the k-th analysis, followed by
\* _apply_context_adjustments: the id, the retrieval, the analysis, the
\* adjustment, then store_signal of the new PENDING record.  The call reads
\* the clock and takes one tick.
process_signal_with_context(k, embed_fails, db_fails) ==
    LET signal_id == md5(k, now)
        encodes == index.built /\ Len(signal_records) # 0
        similar_signals ==
            find_similar_signals(signal_records, index, Analyses[k].signal_type, SearchLimit)
        signal_record ==
            NewSignal(signal_id, now, Analyses[k].signal_type, Analyses[k].confidence)
    IN  /\ now' = now + 1
        /\ UNCHANGED <<improvements, improvement_actions, last_improvement_check>>
        /\ IF encodes /\ embed_fails
           THEN /\ ret' = [Ret("process") EXCEPT !.error = "EmbeddingError"]
                /\ UNCHANGED <<signals, signal_records, index>>
           ELSE store_signal_as(enhanced_signal(k, signal_id, similar_signals),
                                signal_record, embed_fails, db_fails)

\* the loop of update_signal_outcome: the first record with the id gets the
\* outcome, and the metrics when they are truthy
RECURSIVE UpdateFirst(_, _, _, _)
UpdateFirst(recs, id, outcome, metrics) ==
    IF recs = <<>> THEN <<>>
    ELSE IF Head(recs).signal_id = id
         THEN <<[Head(recs) EXCEPT
                    !.outcome = outcome,
                    !.performance_metrics = IF Truthy(metrics) THEN metrics ELSE @]>>
              \o Tail(recs)
         ELSE <<Head(recs)>> \o UpdateFirst(Tail(recs), id, outcome, metrics)

\* update_signal_outcome(signal_id, outcome, performance_metrics): the list
\* first, then UPDATE signals SET outcome, performance_metrics WHERE signal_id
update_signal_outcome_as(r, id, outcome, metrics, db_fails) ==
    /\ signal_records' = UpdateFirst(signal_records, id, outcome, metrics)
    /\ index' = index
    /\ IF db_fails
       THEN /\ signals' = signals
            /\ ret' = [r EXCEPT !.error = "StorageError"]
       ELSE /\ signals' = {IF row.signal_id = id
                           THEN [row EXCEPT !.outcome = outcome,
                                     !.performance_metrics = MetricsColumn(metrics)]
                           ELSE row : row \in signals}
            /\ ret' = r

\* RAGManager.update_signal_outcome, called by a host
update_signal_outcome(id, outcome, metrics, db_fails) ==
    update_signal_outcome_as(Ret("update_outcome"), id, outcome, metrics, db_fails)

\* The improvement check.  An evaluation runs on st: the improvements table,
\* the improvement_actions list, the number of SQLite writes made so far, the
\* exception raised ("none" when none), whether the emission step was
\* reached, and the clock reading at which _check_for_improvements was
\* entered (<<>> when it was not).  failing is the number of the SQLite write that raises (0: none).

\* self.improvement_threshold and self.improvement_interval
improvement_threshold == Quotient(1, 10)
improvement_interval == 6 * Hour

\* datetime.strftime('%Y%m%d_%H%M%S'): the time to the second
strftime(t) == t \div 2

\* performance_after = None
NoPerformanceAfter == <<>>

\* store_improvement(improvement): INSERT OR REPLACE, then append
store_improvement(st, improvement, failing) ==
    IF st.error # "none" THEN st
    ELSE IF st.writes + 1 = failing
    THEN [st EXCEPT !.writes = @ + 1, !.error = "StorageError"]
    ELSE [st EXCEPT
             !.writes = @ + 1,
             !.improvements =
                 {row \in @ : row.action_id # improvement.action_id}
                     \cup {ActionRow(improvement)},
             !.improvement_actions = Append(@, improvement)]

\* avg_failure_confidence, as a float
avg_failure_confidence(failures) ==
    Quotient(Sum([i \in DOMAIN failures |-> failures[i].confidence]), 100 * Len(failures))

\* the ImprovementAction of _improve_confidence_threshold
confidence_threshold_action(failures, performance, t) ==
    [action_id |-> <<"confidence_threshold", strftime(t)>>,
     timestamp |-> t,
     improvement_type |-> "confidence_threshold",
     parameters |->
         {<<"new_threshold", Plus(avg_failure_confidence(failures), Quotient(1, 10))>>,
          <<"old_threshold", Quotient(7, 10)>>},
     performance_before |-> performance,
     performance_after |-> NoPerformanceAfter]

\* _improve_confidence_threshold with "avg_failure_confidence >= 0.7"
improve_confidence_threshold_at_least(st, failures, performance, t, failing) ==
    IF ~Less(avg_failure_confidence(failures), Quotient(7, 10))
    THEN store_improvement(st, confidence_threshold_action(failures, performance, t), failing)
    ELSE st

\* _improve_confidence_threshold(failures, performance)
improve_confidence_threshold(st, failures, performance, t, failing) ==
    IF Less(Quotient(7, 10), avg_failure_confidence(failures))
    THEN store_improvement(st, confidence_threshold_action(failures, performance, t), failing)
    ELSE st

\* _improve_context_weighting that stores nothing once the failures' average
\* confidence is above 0.7
improve_context_weighting_unless_high(st, failures, performance, t, failing) ==
    IF Less(Quotient(7, 10), avg_failure_confidence(failures)) THEN st
    ELSE store_improvement(st,
             [action_id |-> <<"context_weighting", strftime(t)>>,
              timestamp |-> t,
              improvement_type |-> "context_weighting",
              parameters |-> {<<"adjustment_factor", Quotient(8, 10)>>},
              performance_before |-> performance,
              performance_after |-> NoPerformanceAfter],
             failing)

\* the ImprovementAction of _improve_context_weighting
context_weighting_action(performance, t) ==
    [action_id |-> <<"context_weighting", strftime(t)>>,
     timestamp |-> t,
     improvement_type |-> "context_weighting",
     parameters |-> {<<"adjustment_factor", Quotient(8, 10)>>},
     performance_before |-> performance,
     performance_after |-> NoPerformanceAfter]

\* _improve_context_weighting(failures, performance)
improve_context_weighting(st, failures, performance, t, failing) ==
    store_improvement(st, context_weighting_action(performance, t), failing)

\* recent_failures of _trigger_improvement_actions
recent_failures(recs, t) ==
    SelectSeq(recs, LAMBDA s : s.timestamp >= t - RecentDays * Day /\ s.outcome = "failure")

\* _trigger_improvement_actions without "if len(recent_failures) > 3"
trigger_improvement_actions_without_count(st, recs, recent_performance, t, failing) ==
    LET failures == recent_failures(recs, t)
        first == improve_confidence_threshold(
                     [st EXCEPT !.reached = TRUE], failures, recent_performance, t, failing)
    IN  improve_context_weighting(first, failures, recent_performance, t, failing)

\* _trigger_improvement_actions(recent_performance, older_performance)
trigger_improvement_actions(st, recs, recent_performance, t, failing) ==
    LET failures == recent_failures(recs, t)
        first == improve_confidence_threshold(
                     [st EXCEPT !.reached = TRUE], failures, recent_performance, t, failing)
    IN  IF Len(failures) > 3
        THEN improve_context_weighting(first, failures, recent_performance, t, failing)
        ELSE st

\* performance_drop of _check_for_improvements; .get('success_rate', 0)
performance_drop(recent_performance, older_performance) ==
    Minus(older_performance.success_rate, recent_performance.success_rate)

\* _check_for_improvements()
check_for_improvements(st, recs, t, failing) ==
    LET recent_performance == get_performance_metrics(recs, t, RecentDays)
        older_performance == get_performance_metrics(recs, t, BaselineDays)
    IN  IF recent_performance.empty \/ older_performance.empty THEN st
        ELSE IF Less(improvement_threshold,
                     performance_drop(recent_performance, older_performance))
        THEN trigger_improvement_actions(st, recs, recent_performance, t, failing)
        ELSE st

\* the evaluation starts on the table and the list as they are
Evaluation ==
    [improvements |-> improvements, improvement_actions |-> improvement_actions,
     writes |-> 0, error |-> "none", reached |-> FALSE, evaluation |-> <<>>]

\* trigger_improvement_cycle(trigger_signal), as force_improvement_cycle
\* calls it; the call reads the clock and takes one tick
trigger_improvement_cycle(failing) ==
    LET recent_performance == get_performance_metrics(signal_records, now, RecentDays)
        older_performance == get_performance_metrics(signal_records, now, BaselineDays)
        st == IF ~recent_performance.empty /\ ~older_performance.empty
              THEN trigger_improvement_actions(
                       Evaluation, signal_records, recent_performance, now, failing)
              ELSE Evaluation
    IN  /\ improvements' = st.improvements
        /\ improvement_actions' = st.improvement_actions
        /\ ret' = [Ret("trigger") EXCEPT
                      !.error = st.error,
                      !.reached = st.reached,
                      !.performance = recent_performance]
        /\ now' = now + 1
        /\ UNCHANGED <<signals, signal_records, index, last_improvement_check>>

\* SelfImprovingAgent.update_signal_outcome: RAGManager.update_signal_outcome,
\* then the improvement check when the interval has passed.  The SQLite write
\* number 1 is the UPDATE; the call reads the clock and takes one tick.
agent_update_signal_outcome(id, outcome, metrics, failing) ==
    LET recs == UpdateFirst(signal_records, id, outcome, metrics)
        due == failing # 1 /\ now - last_improvement_check > improvement_interval
        st == IF due
              THEN check_for_improvements(
                       [Evaluation EXCEPT !.writes = 1, !.evaluation = <<now>>],
                       recs, now, failing)
              ELSE Evaluation
        r == [Ret("update_outcome") EXCEPT
                 !.error = st.error, !.reached = st.reached,
                 !.evaluation = st.evaluation]
    IN  /\ now' = now + 1
        /\ update_signal_outcome_as(r, id, outcome, metrics, failing = 1)
        /\ IF failing = 1
           THEN UNCHANGED <<improvements, improvement_actions, last_improvement_check>>
           ELSE /\ improvements' = st.improvements
                /\ improvement_actions' = st.improvement_actions
                /\ last_improvement_check' =
                      IF due /\ st.error = "none" THEN now ELSE last_improvement_check

\* the value EnhancedAIAnalyzer.update_signal_outcome returns for the agent's
\* call with the outcome r: True, or False from its "except Exception"
analyzer_update_signal_outcome(r) == r.error = "none"

\* cleanup_old_signals(cutoff_date): the list first, then
\* DELETE FROM signals WHERE timestamp < ?; returns cursor.rowcount
cleanup_old_signals(cutoff, db_fails) ==
    LET r == Ret("cleanup")
        old == {row \in signals : TextLess(row.timestamp, isoformat(cutoff))}
    IN  /\ signal_records' = NotOlder(signal_records, cutoff)
        /\ index' = index
        /\ IF db_fails
           THEN /\ signals' = signals
                /\ ret' = [r EXCEPT !.error = "StorageError"]
           ELSE /\ signals' = signals \ old
                /\ ret' = [r EXCEPT !.count = Cardinality(old)]

\* rebuild_index(): _build_index, then get_stats
rebuild_index ==
    LET built == build_index(signal_records, index, signals)
    IN  /\ signal_records' = built.records
        /\ index' = built.index
        /\ signals' = built.signals
        /\ ret' = [Ret("rebuild") EXCEPT !.count = ntotal(built.index)]
        /\ UNCHANGED <<agent_vars, thread_vars>>

\* get_stats(): reads index_size
get_stats ==
    /\ ret' = [Ret("stats") EXCEPT
                  !.count = Stats(signal_records, index).index_size,
                  !.stats = Stats(signal_records, index)]
    /\ UNCHANGED <<signals, signal_records, index>>
    /\ UNCHANGED <<agent_vars, thread_vars>>

\* a call of find_similar_signals
FindSimilar(query_type, limit) ==
    /\ ret' = [Ret("find_similar") EXCEPT
                  !.results = find_similar_signals(signal_records, index, query_type, limit)]
    /\ UNCHANGED <<signals, signal_records, index>>

----------------------------------------------------------------------------
\* The calls a host makes.

Store ==
    /\ Len(signal_records) < MaxRecords
    /\ ntotal(index) < MaxIndex
    /\ \E signal \in Candidates, embed_fails \in BOOLEAN, db_fails \in BOOLEAN :
          store_signal(signal, embed_fails, db_fails)
    /\ UNCHANGED <<agent_vars, thread_vars>>

UpdateOutcome ==
    \E id \in SignalIds, resolution \in Resolutions, db_fails \in BOOLEAN :
       update_signal_outcome(id, resolution[1], resolution[2], db_fails)
    /\ UNCHANGED <<agent_vars, thread_vars>>

Cleanup ==
    /\ \E cutoff \in Cutoffs, db_fails \in BOOLEAN : cleanup_old_signals(cutoff, db_fails)
    /\ UNCHANGED <<agent_vars, thread_vars>>

Find ==
    /\ \E ty \in SignalTypes, limit \in Limits : FindSimilar(ty, limit)
    /\ UNCHANGED <<agent_vars, thread_vars>>

Process ==
    /\ now < Epoch + MaxClock
    /\ Len(signal_records) < MaxRecords
    /\ ntotal(index) < MaxIndex
    /\ \E k \in DOMAIN Analyses, embed_fails \in BOOLEAN, db_fails \in BOOLEAN :
          process_signal_with_context(k, embed_fails, db_fails)
    /\ UNCHANGED thread_vars

Next ==
    \/ ColdStart
    \/ Store
    \/ UpdateOutcome
    \/ Cleanup
    \/ rebuild_index
    \/ get_stats
    \/ Find

Spec == Init /\ [][Next]_vars

\* The calls of a host that stores and resolves signals and never cleans up.
NextStoreUpdate ==
    \/ ColdStart
    \/ Store
    \/ UpdateOutcome
    \/ get_stats

SpecStoreUpdate == Init /\ [][NextStoreUpdate]_vars

\* The calls that write: every operation that changes the table, the list or
\* the index, without the read-only calls.
NextWrites ==
    \/ ColdStart
    \/ Store
    \/ UpdateOutcome
    \/ Cleanup
    \/ rebuild_index

SpecWrites == Init /\ [][NextWrites]_vars

\* An instance on a history: the table, the list and the index hold the
\* records of the history, as store_signal and update_signal_outcome left them.
InitHistory ==
    /\ signal_records \in Histories
    /\ signals = {Row(signal_records[i]) : i \in DOMAIN signal_records}
    /\ index = IF signal_records = <<>> THEN NoIndex
               ELSE [built |-> TRUE, vectors |-> Embeddings(signal_records)]
    /\ ret = Ret("init")
    /\ improvements = {}
    /\ improvement_actions = <<>>
    /\ now = Epoch
    /\ last_improvement_check = Epoch
    /\ lock = 0
    /\ threads = [t \in Threads |-> Idle]

\* get_performance_metrics(days) as the improvement check calls it
PerformanceMetrics ==
    \E days \in {RecentDays, BaselineDays} :
        /\ ret' = [Ret("metrics") EXCEPT
                      !.count = days,
                      !.performance = get_performance_metrics(signal_records, now, days)]
        /\ UNCHANGED <<signals, signal_records, index>>
        /\ UNCHANGED <<agent_vars, thread_vars>>

\* An instance on a history for the improvement check.
InitImprove ==
    /\ signal_records \in {h \in ImproveHistories :
                               Len(recent_failures(h, Epoch)) <= MaxFailures}
    /\ signals = {Row(signal_records[i]) : i \in DOMAIN signal_records}
    /\ index = IF signal_records = <<>> THEN NoIndex
               ELSE [built |-> TRUE, vectors |-> Embeddings(signal_records)]
    /\ ret = Ret("init")
    /\ improvements = {}
    /\ improvement_actions = <<>>
    /\ now = Epoch
    /\ last_improvement_check = Epoch
    /\ lock = 0
    /\ threads = [t \in Threads |-> Idle]

\* the ticks of the clock that calls have taken
Ticks == (now - Epoch) % Hour

\* the SQLite write of a call that raises: none, the first, the second
Failing == 0..2

\* the improvement check is followed over one call less than MaxClock, and
\* outcomes are recorded for the ids below MaxId
TriggerImprovementCycle ==
    /\ Ticks < MaxClock - 1
    /\ \E failing \in Failing : trigger_improvement_cycle(failing)
    /\ UNCHANGED thread_vars

AgentUpdateOutcome ==
    /\ Ticks < MaxClock - 1
    /\ \E id \in 1..(MaxId - 1), resolution \in Resolutions, failing \in Failing :
          agent_update_signal_outcome(id, resolution[1], resolution[2], failing)
    /\ UNCHANGED thread_vars

\* more than the improvement interval passes without a call
Elapse ==
    /\ now - Epoch < Hour
    /\ now' = now + 7 * Hour
    /\ UNCHANGED <<signals, signal_records, index, ret, lock, threads>>
    /\ UNCHANGED <<improvements, improvement_actions, last_improvement_check>>

\* Outcomes are recorded and improvement cycles forced, on the histories.
NextImprove ==
    \/ TriggerImprovementCycle
    \/ AgentUpdateOutcome
    \/ Elapse

SpecImprove == InitImprove /\ [][NextImprove]_vars

\* a forced improvement cycle whose writes all succeed
SuccessfulTrigger ==
    /\ Ticks < MaxClock - 1
    /\ trigger_improvement_cycle(0)
    /\ UNCHANGED thread_vars

\* Improvement cycles are forced and the instance restarts.
NextRestart ==
    \/ SuccessfulTrigger
    \/ ColdStart

\* An instance on one of the shorter histories of the improvement check.
InitRestart ==
    /\ InitImprove
    /\ Len(signal_records) <= MaxFailures

SpecRestart == InitRestart /\ [][NextRestart]_vars

\* Candidates are processed, found again, and the instance restarts.
NextProcess ==
    \/ Process
    \/ ColdStart
    \/ Find

SpecProcess == Init /\ [][NextProcess]_vars

\* the context analyses and the original confidences handed to the adjustment
ContextAnalyses ==
    [success_rate : {Quotient(n, 4) : n \in 0..4},
     avg_confidence : {Quotient(50, 1)},
     avg_similarity : {<<>>, <<Cosine(PadSimilarity)>>, <<Quotient(-1, 2)>>,
                       <<Quotient(1, 2)>>, <<Quotient(1, 1)>>},
     total_similar : 0..MaxSimilar]

Confidences == {0, 20, 50, 100, 120}

\* _calculate_confidence_adjustment on a context analysis, then
\* _apply_context_adjustments on the analysis's confidence
AdjustConfidence ==
    \E context_analysis \in ContextAnalyses, original_confidence \in Confidences :
        LET adjustment == calculate_confidence_adjustment(context_analysis)
        IN  /\ ret' = [Ret("adjust") EXCEPT
                          !.context_analysis = context_analysis,
                          !.original_confidence = original_confidence,
                          !.adjustment = adjustment,
                          !.confidence =
                              apply_context_adjustments(original_confidence, adjustment)]
            /\ UNCHANGED <<signals, signal_records, index>>
            /\ UNCHANGED <<agent_vars, thread_vars>>

\* The adjustment over the context analyses.
NextAdjustment ==
    \/ AdjustConfidence

SpecAdjustment == Init /\ [][NextAdjustment]_vars

\* Metrics over the histories, while outcomes are recorded.
NextMetrics ==
    \/ PerformanceMetrics
    \/ UpdateOutcome

SpecMetrics == InitHistory /\ [][NextMetrics]_vars

----------------------------------------------------------------------------
\* Calls made by threads at once.  A thread is at "idle", or inside a call at
\* the statement it executes next; a step runs from one point where another
\* thread can observe or change the shared state to the next one.

\* the position after "with self.lock:" has acquired the lock
Body(pc) == IF pc = "acquire" THEN "body" ELSE "insert"

\* the holder of the lock after the with statement of thread t is left,
\* normally or by an exception, without releasing on an exception
exit_with_lock_kept_on_raise(t, raised) == IF raised THEN t ELSE 0

\* the holder of the lock after the with statement of thread t is left,
\* normally or by an exception: __exit__ releases in both cases
exit_with(t, raised) == 0

\* the thread's call returns, or raises error to the thread's caller
Return(t, error) ==
    /\ threads' = [threads EXCEPT ![t] = [Idle EXCEPT !.pc = "done"]]
    /\ ret' = ret

\* the record the threads store, the cutoff they clean up with, and the id
\* and the outcome they resolve
ThreadCandidates == {NewSignal(MaxFailures + MaxOlder + 1, Epoch, "BUY", 80)}
ThreadCutoffs == {Epoch - 5 * Day}
ThreadIds == {1}
ThreadResolutions == {<<"failure", NoMetrics>>}

\* a thread enters store_signal, the agent's update_signal_outcome or
\* cleanup_old_signals and comes to "with self.lock:"
Call(t) ==
    /\ threads[t].pc = "idle"
    /\ \E op \in {"store", "update_outcome", "cleanup"} :
          threads' = [threads EXCEPT ![t] = [Idle EXCEPT !.op = op, !.pc = "acquire"]]
    /\ UNCHANGED <<signals, signal_records, index, ret, agent_vars, lock>>

\* "with self.lock:" of store_signal, update_signal_outcome,
\* cleanup_old_signals and store_improvement: blocks while the lock is held,
\* by any thread
Acquire(t) ==
    /\ threads[t].pc \in {"acquire", "acquire_improvement"}
    /\ lock = 0
    /\ lock' = t
    /\ threads' = [threads EXCEPT ![t].pc = Body(threads[t].pc)]
    /\ UNCHANGED <<signals, signal_records, index, ret, agent_vars>>

\* store_signal inside the lock, up to self.signal_records.append(signal)
StoreAppend(t) ==
    /\ threads[t].pc = "body"
    /\ threads[t].op = "store"
    /\ \E signal \in ThreadCandidates, raises \in {"none", "EmbeddingError", "StorageError"} :
          LET embedded == [signal EXCEPT !.embedding = encode(signal.signal_type)]
          IN  IF raises # "none"
              THEN /\ lock' = exit_with(t, TRUE)
                   /\ Return(t, raises)
                   /\ UNCHANGED <<signals, signal_records>>
              ELSE /\ signals' = {row \in signals : row.signal_id # signal.signal_id}
                                     \cup {Row(embedded)}
                   /\ signal_records' = Append(signal_records, embedded)
                   /\ threads' = [threads EXCEPT ![t].pc = "index",
                                                  ![t].signal = embedded]
                   /\ UNCHANGED <<lock, ret>>
    /\ UNCHANGED <<index, agent_vars>>

\* store_signal from self._incremental_index_update(signal) to the end
StoreIndex(t) ==
    /\ threads[t].pc = "index"
    /\ LET upd == incremental_index_update(signal_records, index, signals,
                                           threads[t].signal)
       IN  /\ signal_records' = upd.records
           /\ index' = upd.index
           /\ signals' = upd.signals
    /\ lock' = exit_with(t, FALSE)
    /\ Return(t, "none")
    /\ UNCHANGED agent_vars

\* RAGManager.update_signal_outcome inside the lock, called by the agent's
\* update_signal_outcome: an exception of the UPDATE leaves the agent's call
UpdateBody(t) ==
    /\ threads[t].pc = "body"
    /\ threads[t].op = "update_outcome"
    /\ \E id \in ThreadIds, resolution \in ThreadResolutions, db_fails \in BOOLEAN :
          /\ signal_records' = UpdateFirst(signal_records, id, resolution[1], resolution[2])
          /\ IF db_fails
             THEN /\ signals' = signals
                  /\ Return(t, "StorageError")
             ELSE /\ signals' = {IF row.signal_id = id
                                 THEN [row EXCEPT
                                          !.outcome = resolution[1],
                                          !.performance_metrics = MetricsColumn(resolution[2])]
                                 ELSE row : row \in signals}
                  /\ threads' = [threads EXCEPT ![t].pc = "guard"]
                  /\ ret' = ret
          /\ lock' = exit_with(t, db_fails)
    /\ UNCHANGED <<index, agent_vars>>

\* the actions that _check_for_improvements, through
\* _trigger_improvement_actions, hands to store_improvement one after the
\* other, on the records and at the clock reading that it finds
Emissions(recs, t) ==
    LET recent_performance == get_performance_metrics(recs, t, RecentDays)
        older_performance == get_performance_metrics(recs, t, BaselineDays)
        failures == recent_failures(recs, t)
    IN  IF recent_performance.empty \/ older_performance.empty THEN <<>>
        ELSE IF ~Less(improvement_threshold,
                      performance_drop(recent_performance, older_performance))
        THEN <<>>
        ELSE IF ~(Len(failures) > 3) THEN <<>>
        ELSE (IF Less(Quotient(7, 10), avg_failure_confidence(failures))
              THEN <<confidence_threshold_action(failures, recent_performance, t)>>
              ELSE <<>>)
             \o <<context_weighting_action(recent_performance, t)>>

\* the agent's update_signal_outcome after the manager's call: the test of
\* the interval and, when it has passed, _check_for_improvements up to its
\* first store_improvement
Guard(t) ==
    /\ threads[t].pc = "guard"
    /\ IF now - last_improvement_check > improvement_interval
       THEN LET pending == Emissions(signal_records, now)
            IN  /\ threads' = [threads EXCEPT
                                  ![t].pending = pending,
                                  ![t].pc = IF pending = <<>> THEN "reset"
                                            ELSE "acquire_improvement"]
                /\ ret' = ret
       ELSE Return(t, "none")
    /\ UNCHANGED <<signals, signal_records, index, agent_vars, lock>>

\* store_improvement inside the lock; an exception of the INSERT leaves
\* _check_for_improvements and the agent's call
Insert(t) ==
    /\ threads[t].pc = "insert"
    /\ \E db_fails \in BOOLEAN :
          LET st == store_improvement(Evaluation, Head(threads[t].pending),
                                      IF db_fails THEN 1 ELSE 0)
              rest == Tail(threads[t].pending)
          IN  /\ improvements' = st.improvements
              /\ improvement_actions' = st.improvement_actions
              /\ lock' = exit_with(t, db_fails)
              /\ IF db_fails THEN Return(t, st.error)
                 ELSE /\ threads' = [threads EXCEPT
                                        ![t].pending = rest,
                                        ![t].pc = IF rest = <<>> THEN "reset"
                                                  ELSE "acquire_improvement"]
                      /\ ret' = ret
    /\ UNCHANGED <<signals, signal_records, index, last_improvement_check, now>>

\* self.last_improvement_check = datetime.now()
Reset(t) ==
    /\ threads[t].pc = "reset"
    /\ last_improvement_check' = now
    /\ Return(t, "none")
    /\ UNCHANGED <<signals, signal_records, index, improvements,
                   improvement_actions, now, lock>>

\* cleanup_old_signals inside the lock
CleanupBody(t) ==
    /\ threads[t].pc = "body"
    /\ threads[t].op = "cleanup"
    /\ \E cutoff \in ThreadCutoffs, db_fails \in BOOLEAN :
          /\ signal_records' = NotOlder(signal_records, cutoff)
          /\ signals' = IF db_fails THEN signals
                        ELSE {row \in signals :
                                 ~TextLess(row.timestamp, isoformat(cutoff))}
          /\ lock' = exit_with(t, db_fails)
          /\ Return(t, IF db_fails THEN "StorageError" ELSE "none")
    /\ UNCHANGED <<index, agent_vars>>

\* get_stats() by a thread that is in no other call: it takes no lock
ReadStats(t) ==
    /\ threads[t].pc \in {"idle", "done"}
    /\ ret' = [Ret("stats") EXCEPT
                  !.count = Stats(signal_records, index).index_size,
                  !.stats = Stats(signal_records, index)]
    /\ UNCHANGED <<signals, signal_records, index, agent_vars, thread_vars>>

\* the fewest recent failures with which _trigger_improvement_actions emits
EmittingFailures == 4

\* An instance constructed 7 hours ago on a history whose recent window
\* dropped: EmittingFailures recent failures of confidence 0.8 and MaxOlder
\* older successes.  The threads are idle; the calls all read the same clock.
InitThreads ==
    /\ signal_records \in {h \in ImproveHistories :
                               /\ Len(recent_failures(h, Epoch)) = EmittingFailures
                               /\ Len(h) = EmittingFailures + MaxOlder
                               /\ \A i \in DOMAIN h :
                                     /\ h[i].confidence = 80
                                     /\ h[i].outcome = "success"
                                            => h[i].timestamp = Epoch - 10 * Day}
    /\ signals = {Row(signal_records[i]) : i \in DOMAIN signal_records}
    /\ index = [built |-> TRUE, vectors |-> Embeddings(signal_records)]
    /\ ret = Ret("init")
    /\ improvements = {}
    /\ improvement_actions = <<>>
    /\ now = Epoch + 7 * Hour
    /\ last_improvement_check = Epoch
    /\ lock = 0
    /\ threads = [t \in Threads |-> Idle]

\* the steps of a thread inside a call
Step(t) ==
    \/ Acquire(t)
    \/ StoreAppend(t)
    \/ StoreIndex(t)
    \/ UpdateBody(t)
    \/ Guard(t)
    \/ Insert(t)
    \/ Reset(t)
    \/ CleanupBody(t)

NextThreads ==
    \E t \in Threads :
        \/ Call(t)
        \/ Step(t)
        \/ ReadStats(t)

SpecThreads == InitThreads /\ [][NextThreads]_vars

\* The calls that take the lock, under a fair scheduler: a thread that can
\* take its next step from some moment on is not suspended for ever.
NextLocking ==
    \E t \in Threads :
        \/ Call(t)
        \/ Step(t)

SpecLocking ==
    /\ InitThreads
    /\ [][NextLocking]_vars
    /\ \A t \in Threads : WF_vars(Step(t))

----------------------------------------------------------------------------
\* Properties.

\* the number of in-memory records that have an embedding
EmbeddedCount(recs) == Cardinality({i \in DOMAIN recs : recs[i].embedding # NoEmbedding})

\* the positions of the in-memory records with this id
Positions(recs, id) == {i \in DOMAIN recs : recs[i].signal_id = id}

\* the record a successful store_signal has just appended
Stored == signal_records[Len(signal_records)]

StoreReturned == ret.op = "store" /\ ret.error = "none"

\* C1: from a cold start and through any store_signal and
\* update_signal_outcome calls, the index size that get_stats reports equals
\* the number of in-memory records with an embedding.
C1_IndexSizeIsEmbeddedCount ==
    /\ Stats(signal_records, index).index_size = EmbeddedCount(signal_records)
    /\ ret.op = "stats" => ret.count = EmbeddedCount(signal_records)

C1_Witness ==
    /\ ret.op = "stats"
    /\ ret.count = 2
    /\ Len(signal_records) = 2

\* C2: a rebuild_index that follows a cleanup_old_signals leaves the index
\* size equal to the number of records left, also when none is left.
C2_RebuildAfterCleanup ==
    [][(ret.op = "cleanup" /\ ret.error = "none" /\ ret'.op = "rebuild")
          => /\ ntotal(index') = Len(signal_records')
             /\ ret'.count = Cardinality(signals')]_vars

\* C3: after store_signal, exactly one record has the stored id, in the list
\* and in the table, and a rebuild yields an index as large as the number of
\* embedded records.
C3_StoreIsUpsert ==
    StoreReturned =>
        /\ Cardinality(Positions(signal_records, Stored.signal_id)) = 1
        /\ Cardinality({row \in signals : row.signal_id = Stored.signal_id}) = 1
        /\ LET built == build_index(signal_records, index, signals)
           IN  ntotal(built.index) = EmbeddedCount(built.records)

\* C4: a store_signal whose embedding fails leaves the table, the list and
\* the index as they were.
C4_EmbeddingFailureIsAtomic ==
    [][(ret'.op = "store" /\ ret'.error = "EmbeddingError")
          => UNCHANGED <<signals, signal_records, index>>]_vars

C4_Witness ==
    /\ ret.op = "store"
    /\ ret.error = "EmbeddingError"
    /\ Len(signal_records) = 1
    /\ Cardinality(signals) = 1
    /\ ntotal(index) = 1

\* a confidence within [0,1] and a known decision type
Valid(r) == r.confidence >= 0 /\ r.confidence <= 100 /\ r.signal_type \in KnownSignalTypes

\* C5: no record with a confidence outside [0,1] or an unknown decision type
\* is in the table, in the list or (by its embedding) in the index.
C5_OnlyValidRecordsPersisted ==
    /\ \A row \in signals : Valid(row)
    /\ \A i \in DOMAIN signal_records : Valid(signal_records[i])
    /\ \A i \in DOMAIN index.vectors : index.vectors[i] # encode("MOON")

\* an id that no record carries, in the list or in the table
Unknown(id) ==
    /\ Positions(signal_records, id) = {}
    /\ \A row \in signals : row.signal_id # id

\* C6: update_signal_outcome with an unknown id fails with NotFoundError and
\* changes no record.
C6_UnknownIdIsReported ==
    [][\A id \in SignalIds, res \in Resolutions :
          (Unknown(id) /\ update_signal_outcome(id, res[1], res[2], FALSE))
             => /\ ret'.error = "NotFoundError"
                /\ UNCHANGED <<signals, signal_records>>]_vars

\* the first position of the id in the list
First(recs, id) == CHOOSE i \in Positions(recs, id) : \A j \in Positions(recs, id) : i <= j

\* C7: after update_signal_outcome on a known id the record has the outcome
\* and the metrics of this call, in the list and in the table, and nothing
\* else has changed.
C7_LastWriteWins ==
    [][\A id \in SignalIds, res \in Resolutions :
          (~Unknown(id) /\ Positions(signal_records, id) # {}
              /\ update_signal_outcome(id, res[1], res[2], FALSE))
             => LET i == First(signal_records, id)
                IN  /\ signal_records' =
                          [signal_records EXCEPT ![i].outcome = res[1],
                                                 ![i].performance_metrics = res[2]]
                    /\ signals' = {IF row.signal_id = id
                                   THEN [row EXCEPT !.outcome = res[1],
                                             !.performance_metrics = res[2]]
                                   ELSE row : row \in signals}]_vars

\* C8: a call whose durable write fails leaves the in-memory records as
\* they were.
C8_StorageFailureRollsBack ==
    [][ret'.error = "StorageError" => signal_records' = signal_records]_vars

\* C9: cleanup_old_signals(cutoff) removes, from the list and from the
\* table, exactly the records older than cutoff, returns how many it
\* removed and leaves the index alone.
C9_CleanupRemovesOlder ==
    [][\A cutoff \in Cutoffs :
          cleanup_old_signals(cutoff, FALSE)
             => /\ signal_records' = NotOlder(signal_records, cutoff)
                /\ signals' = {row \in signals : FromRow(row).timestamp >= cutoff}
                /\ ret'.count = Len(signal_records) - Len(signal_records')
                /\ ret'.count = Cardinality(signals) - Cardinality(signals')
                /\ index' = index]_vars

\* the records of a result list
Found(results) == {results[i].signal : i \in DOMAIN results}

\* C10: once store_signal has returned for a valid record,
\* find_similar_signals with the record's text and a limit no smaller than
\* the number of records held returns the record.
C10_StoredRecordIsFound ==
    (StoreReturned /\ Valid(Stored)) =>
        \A limit \in Limits :
            limit >= Len(signal_records) =>
                Stored \in Found(find_similar_signals(signal_records, index,
                                                      Stored.signal_type, limit))

\* the positions of the resolved records of the window of the last metrics call
InWindow ==
    {i \in DOMAIN signal_records :
        /\ signal_records[i].timestamp >= now - ret.count * Day
        /\ signal_records[i].outcome # "pending"}

\* C16: metrics(window_days) on a window with no resolved record returns the
\* empty result and never divides by zero; on a non-empty window its total is
\* the number of resolved records in the window and its success_rate is
\* successes / total.
C16_MetricsOfWindow ==
    ret.op = "metrics" =>
        LET successes == {i \in InWindow : signal_records[i].outcome = "success"}
            m == ret.performance
        IN  /\ ~m.raised
            /\ InWindow = {} => m = NoPerformance
            /\ InWindow # {} =>
                  /\ ~m.empty
                  /\ m.total_signals = Cardinality(InWindow)
                  /\ m.success_rate.den # 0
                  /\ m.success_rate.num * Cardinality(InWindow) =
                        Cardinality(successes) * m.success_rate.den

C16_Witness ==
    /\ ret.op = "metrics"
    /\ ret.performance = NoPerformance
    /\ Len(signal_records) = 2
    /\ signal_records[1].outcome = "pending"
    /\ signal_records[2].outcome = "success"
    /\ signal_records[2].timestamp < now - ret.count * Day

\* the sum of the values that the records at the positions S have for a key
RECURSIVE MetricSum(_, _)
MetricSum(S, key) ==
    IF S = {} THEN 0
    ELSE LET j == CHOOSE j \in S : TRUE
             value == (CHOOSE q \in signal_records[j].performance_metrics.kv : q[1] = key)[2]
         IN  value + MetricSum(S \ {j}, key)

\* C17: metrics reports, for every performance-metric key present on at least
\* one resolved record of the window, the average over the records that have
\* it, also for a key that only a later record has.
C17_EveryMetricKeyAveraged ==
    ret.op = "metrics" =>
        \A i \in InWindow :
            \A p \in signal_records[i].performance_metrics.kv :
                LET with == {j \in InWindow :
                                 p[1] \in Keys(signal_records[j].performance_metrics)}
                IN  \E a \in ret.performance.averages :
                        /\ a[1] = p[1]
                        /\ a[2].den # 0
                        /\ a[2].num * Cardinality(with) = MetricSum(with, p[1]) * a[2].den

\* a <= b for fractions
AtMost(a, b) == ~Less(b, a)

\* C14: for every context analysis (any success rate in [0,1], any average
\* similarity, any sample count) and every original confidence, the
\* adjustment lies in [-0.3, 0.3] and the final confidence in [0, 1].
C14_AdjustmentAndConfidenceBounded ==
    ret.op = "adjust" =>
        /\ AtMost(Quotient(-3, 10), ret.adjustment)
        /\ AtMost(ret.adjustment, Quotient(3, 10))
        /\ AtMost(Quotient(0, 1), ret.confidence)
        /\ AtMost(ret.confidence, Quotient(1, 1))

C14_Witness ==
    /\ ret.op = "adjust"
    /\ ret.context_analysis.avg_similarity = <<Cosine(PadSimilarity)>>
    /\ Less(final_adjustment(ret.context_analysis), Quotient(-3, 10))
    /\ ret.adjustment = Quotient(-3, 10)
    /\ ret.original_confidence = 20
    /\ ret.confidence = Quotient(0, 1)

\* C11: find_similar returns results ordered by descending similarity, and
\* two records with identical similarity appear in the order in which they
\* were inserted into the store.  Every record here is inserted by
\* process_signal_with_context, which stamps it with the clock: a record
\* inserted earlier has the smaller timestamp.
C11_DescendingThenInsertionOrder ==
    ret.op = "find_similar" =>
        \A i, j \in DOMAIN ret.results :
            i < j =>
                /\ ret.results[i].similarity >= ret.results[j].similarity
                /\ ret.results[i].similarity = ret.results[j].similarity =>
                      ret.results[i].signal.timestamp <= ret.results[j].signal.timestamp

ProcessReturned == ret.op = "process" /\ ret.error = "none"

\* C12: in process(candidate) retrieval completes before the candidate is
\* stored: the historical context returned never contains the record
\* created for that candidate.
C12_ContextExcludesCandidate ==
    ProcessReturned =>
        /\ Stored.signal_id = ret.signal_id
        /\ \A i \in DOMAIN ret.historical_context :
              ret.historical_context[i].signal_id # ret.signal_id

C12_Witness ==
    /\ ProcessReturned
    /\ Len(signal_records) = 2
    /\ Len(ret.historical_context) = ContextLimit
    /\ ret.historical_context[1].signal_id = signal_records[1].signal_id

\* C13: process(candidate) searches for at most 10 similar records, reports
\* the first 5 of them (all of them when fewer than 5), then persists exactly
\* one new record with outcome PENDING whose id differs from the id of every
\* record already stored.
C13_ProcessSearchesReportsPersists ==
    [][\A k \in DOMAIN Analyses, embed_fails, db_fails \in BOOLEAN :
          (process_signal_with_context(k, embed_fails, db_fails) /\ ret'.error = "none") =>
              LET found == ret'.results
                  reported == ret'.historical_context
                  new == signal_records'[Len(signal_records')]
              IN  /\ Len(found) <= 10
                  /\ Len(reported) = IF Len(found) < 5 THEN Len(found) ELSE 5
                  /\ \A i \in DOMAIN reported :
                        /\ reported[i].signal_id = found[i].signal.signal_id
                        /\ reported[i].outcome = found[i].signal.outcome
                  /\ signal_records' = Append(signal_records, new)
                  /\ \E row \in signals' :
                        /\ signals' = signals \cup {row}
                        /\ row \notin signals
                        /\ row.signal_id = new.signal_id
                        /\ row.outcome = "pending"
                  /\ new.outcome = "pending"
                  /\ new.signal_id = ret'.signal_id
                  /\ \A i \in DOMAIN signal_records :
                        signal_records[i].signal_id # new.signal_id
                  /\ \A row \in signals : row.signal_id # new.signal_id]_vars

C13_Witness ==
    /\ ProcessReturned
    /\ Len(ret.results) = SearchLimit
    /\ Len(ret.historical_context) = ContextLimit
    /\ Len(signal_records) = 2
    /\ signal_records[1].signal_type = signal_records[2].signal_type
    /\ signal_records[2].outcome = "pending"

\* C15: when retrieval finds no similar record (empty store or empty index)
\* the adjustment is exactly 0 and the final confidence is the original
\* confidence clamped to [0, 1].
C15_NoContextNoAdjustment ==
    (ProcessReturned /\ ret.results = <<>>) =>
        /\ ret.adjustment.num = 0
        /\ ret.adjustment.den # 0
        /\ ret.confidence.den # 0
        /\ LET original == Stored.confidence
               clamped == IF original < 0 THEN 0 ELSE IF original > 100 THEN 100 ELSE original
           IN  ret.confidence.num * 100 = clamped * ret.confidence.den

C15_Witness ==
    /\ ProcessReturned
    /\ ret.results = <<>>
    /\ Len(signal_records) = 1
    /\ Stored.confidence = 80
    /\ ret.confidence.num * 100 = 80 * ret.confidence.den

\* the sum of the confidences (in hundredths) of the records at the positions S
\* after the step
RECURSIVE MetricConfidence(_)
MetricConfidence(S) ==
    IF S = {} THEN 0
    ELSE LET j == CHOOSE j \in S : TRUE
         IN  signal_records'[j].confidence + MetricConfidence(S \ {j})

\* a step that runs an evaluation of the improvement scheduler: the manual
\* trigger, or an outcome update
EvaluationStep(failing) ==
    \/ trigger_improvement_cycle(failing)
    \/ \E id \in SignalIds, resolution \in Resolutions :
          agent_update_signal_outcome(id, resolution[1], resolution[2], failing)

\* the two windows as the evaluation of a step measures them
RecentWindow == get_performance_metrics(signal_records', now, RecentDays)
BaselineWindow == get_performance_metrics(signal_records', now, BaselineDays)

\* the step stores no ImprovementAction
NoActionEmitted == UNCHANGED <<improvements, improvement_actions>>

\* C18: an evaluation of the improvement scheduler, started by the
\* outcome-update path or by the manual trigger, emits no ImprovementAction
\* when drop = baseline (14-day) success rate - recent (7-day) success rate
\* is at most the threshold 0.1.
C18_NoActionWithoutDrop ==
    [][\A failing \in Failing :
          EvaluationStep(failing) =>
              (AtMost(Minus(BaselineWindow.success_rate, RecentWindow.success_rate),
                      Quotient(1, 10))
                  => NoActionEmitted)]_vars

\* C19: an evaluation emits no action when either metrics window is empty or
\* when the recent 7-day window holds 3 or fewer FAILURE records; actions are
\* emitted only with at least 4 recent failures.
C19_NoActionBelowFourFailures ==
    [][\A failing \in Failing :
          EvaluationStep(failing) =>
              LET failures == {i \in DOMAIN signal_records' :
                                  /\ signal_records'[i].timestamp >= now - 7 * Day
                                  /\ signal_records'[i].outcome = "failure"}
              IN  /\ (RecentWindow.empty \/ BaselineWindow.empty \/ Cardinality(failures) <= 3)
                        => NoActionEmitted
                  /\ ~NoActionEmitted => Cardinality(failures) >= 4]_vars

C19_Witness ==
    /\ ret.op = "trigger"
    /\ ret.error = "none"
    /\ ~ret.performance.empty
    /\ ret.performance.failed_signals = 3
    /\ Less(Quotient(7, 10), avg_failure_confidence(recent_failures(signal_records, Epoch)))
    /\ improvement_actions = <<>>

\* C20: an evaluation that reaches the emission step stores a
\* CONFIDENCE_THRESHOLD action exactly when the average confidence of the
\* recent failures is strictly greater than 0.7; its parameters are
\* new_threshold = that average + 0.1 and old_threshold = 0.7, its
\* performance_before is the recent-window metrics snapshot and it has no
\* performance_after.
C20_ThresholdActionIffHighConfidence ==
    [][\A failing \in Failing :
          (EvaluationStep(failing) /\ ret'.reached /\ ret'.error = "none") =>
              LET failures == {i \in DOMAIN signal_records' :
                                  /\ signal_records'[i].timestamp >= now - 7 * Day
                                  /\ signal_records'[i].outcome = "failure"}
                  total == MetricConfidence(failures)
                  high == total > 70 * Cardinality(failures)
                  emitted == SubSeq(improvement_actions', Len(improvement_actions) + 1,
                                    Len(improvement_actions'))
                  thresholds == {i \in DOMAIN emitted :
                                    emitted[i].improvement_type = "confidence_threshold"}
              IN  /\ high <=> thresholds # {}
                  /\ Cardinality(thresholds) <= 1
                  /\ \A i \in thresholds :
                        /\ \E new \in {q[2] : q \in {q \in emitted[i].parameters :
                                                        q[1] = "new_threshold"}} :
                              /\ new.den # 0
                              /\ new.num * 100 * Cardinality(failures) =
                                    (total + 10 * Cardinality(failures)) * new.den
                        /\ \E old \in {q[2] : q \in {q \in emitted[i].parameters :
                                                        q[1] = "old_threshold"}} :
                              old.den # 0 /\ old.num * 10 = 7 * old.den
                        /\ Cardinality(emitted[i].parameters) = 2
                        /\ emitted[i].performance_before = RecentWindow
                        /\ emitted[i].performance_after = NoPerformanceAfter
                        /\ ActionRow(emitted[i]) \in improvements']_vars

C20_Witness ==
    /\ ret.op = "update_outcome"
    /\ ret.reached
    /\ ret.error = "none"
    /\ Len(improvement_actions) = 2
    /\ improvement_actions[1].improvement_type = "confidence_threshold"
    /\ improvement_actions[2].improvement_type = "context_weighting"

\* C21: every evaluation that reaches the emission step stores exactly one
\* CONTEXT_WEIGHTING action with adjustment_factor 0.8 and performance_before
\* equal to the recent snapshot, whatever the failures' average confidence;
\* when a CONFIDENCE_THRESHOLD action is emitted in the same evaluation, both
\* are afterwards in the in-memory list and in the table, one of each.
C21_ContextWeightingAlwaysStored ==
    [][\A failing \in Failing :
          (EvaluationStep(failing) /\ ret'.reached /\ ret'.error = "none") =>
              LET emitted == SubSeq(improvement_actions', Len(improvement_actions) + 1,
                                    Len(improvement_actions'))
                  OfType(ty) == {i \in DOMAIN emitted : emitted[i].improvement_type = ty}
              IN  /\ Cardinality(OfType("context_weighting")) = 1
                  /\ Cardinality(OfType("confidence_threshold")) <= 1
                  /\ Len(emitted) =
                        1 + Cardinality(OfType("confidence_threshold"))
                  /\ \A i \in OfType("context_weighting") :
                        /\ \A q \in emitted[i].parameters :
                              /\ q[1] = "adjustment_factor"
                              /\ q[2].den # 0
                              /\ q[2].num * 10 = 8 * q[2].den
                        /\ Cardinality(emitted[i].parameters) = 1
                        /\ emitted[i].performance_before = RecentWindow
                  /\ \A i \in DOMAIN emitted :
                        {row \in improvements' : row.action_id = emitted[i].action_id}
                            = {ActionRow(emitted[i])}]_vars

C21_Witness ==
    /\ ret.op = "trigger"
    /\ ret.reached
    /\ ret.error = "none"
    /\ Len(improvement_actions) = 2
    /\ Cardinality(improvements) = 2
    /\ improvement_actions[1].improvement_type = "confidence_threshold"
    /\ improvement_actions[2].improvement_type = "context_weighting"
    /\ improvement_actions[2].performance_before = ret.performance
    /\ {ActionRow(improvement_actions[i]) : i \in 1..2} = improvements

\* C22: an outcome update starts an evaluation only when more than the
\* interval (6 hours) has passed since the last check, and the last-check time
\* is set to the current time after that evaluation; so two evaluations started
\* by successive outcome updates are more than 6 hours apart, and none starts
\* within 6 hours of the scheduler's construction.
C22_EvaluationsSixHoursApart ==
    [][\A id \in SignalIds, resolution \in Resolutions, failing \in Failing :
          (/\ agent_update_signal_outcome(id, resolution[1], resolution[2], failing)
           /\ ret'.evaluation # <<>>) =>
              /\ now - last_improvement_check > 6 * Hour
              /\ now - Epoch > 6 * Hour
              /\ last_improvement_check' = now
              /\ (ret.op = "update_outcome" /\ ret.evaluation # <<>>)
                    => now - ret.evaluation[1] > 6 * Hour]_vars

\* C25: a failure inside the improvement evaluation (a storage failure while
\* an action is persisted) does not reach the caller of update_outcome: the
\* outcome update, which has been applied, completes normally.
C25_EvaluationFailureIsolated ==
    [][\A id \in SignalIds, resolution \in Resolutions, failing \in Failing :
          (/\ agent_update_signal_outcome(id, resolution[1], resolution[2], failing)
           /\ failing # 1) =>
              /\ ret'.error = "none"
              /\ analyzer_update_signal_outcome(ret')]_vars

\* C27: in every state in which no operation is in progress, reached by any
\* sequence of cold start, store, update_outcome, cleanup and rebuild, the
\* vector at ordinal i of the index is the embedding of the record at position
\* i of the in-memory list.
C27_PositionalAlignment ==
    \A i \in 1..ntotal(index) :
        /\ i <= Len(signal_records)
        /\ index.vectors[i] = signal_records[i].embedding

\* C28: find_similar(query, k) returns at most min(k, number of indexed
\* records) results and no record twice: the padding positions of a search
\* over fewer than k vectors produce no result.
C28_NoResultForPadding ==
    [][\A ty \in SignalTypes, limit \in Limits :
          FindSimilar(ty, limit) =>
              /\ Len(ret'.results) <= limit
              /\ Len(ret'.results) <= ntotal(index)
              /\ \A i, j \in DOMAIN ret'.results :
                    i # j => ret'.results[i].signal # ret'.results[j].signal]_vars

\* C29: the confidence adjustment never moves against the historical
\* evidence: for every retrieved context, one of negative average similarity
\* included, it is >= 0 when the success rate is >= 0.5 and <= 0 when the
\* success rate is <= 0.5, and its magnitude never exceeds 0.15 * 0.9 = 0.135.
C29_AdjustmentFollowsEvidence ==
    ProcessReturned =>
        LET rate == ret.context_analysis.success_rate
            adjustment == ret.adjustment
        IN  /\ AtMost(Quotient(1, 2), rate) => AtMost(Quotient(0, 1), adjustment)
            /\ AtMost(rate, Quotient(1, 2)) => AtMost(adjustment, Quotient(0, 1))
            /\ AtMost(adjustment, Quotient(135, 1000))
            /\ AtMost(Quotient(-135, 1000), adjustment)

\* what restart equivalence compares of a signal record and of an action
SignalKey(r) == <<r.signal_id, r.outcome, r.performance_metrics>>
ActionKey(a) == <<a.action_id, a.improvement_type, a.parameters, a.performance_before>>

\* C30: after successful operations, a fresh instance loaded from the
\* database holds the same signal records (ids, outcomes, metrics, one per
\* id) and the same improvement actions (one per action id) as the running
\* instance held in memory, also when two actions of one type were emitted
\* within the same second.
C30_RestartEquivalence ==
    [][ColdStart =>
          /\ Len(signal_records') = Len(signal_records)
          /\ {SignalKey(signal_records'[i]) : i \in DOMAIN signal_records'}
                = {SignalKey(signal_records[i]) : i \in DOMAIN signal_records}
          /\ \A i, j \in DOMAIN signal_records :
                signal_records[i].signal_id = signal_records[j].signal_id => i = j
          /\ Len(improvement_actions') = Len(improvement_actions)
          /\ {ActionKey(improvement_actions'[i]) : i \in DOMAIN improvement_actions'}
                = {ActionKey(improvement_actions[i]) : i \in DOMAIN improvement_actions}
          /\ \A i, j \in DOMAIN improvement_actions :
                improvement_actions[i].action_id = improvement_actions[j].action_id
                    => i = j]_vars

\* thread t is inside the improvement evaluation: past the test of the
\* interval and before the return of the agent's update_signal_outcome
InEvaluation(t) == threads[t].pc \in {"acquire_improvement", "insert", "reset"}

\* C23: the improvement evaluation is never concurrently re-entered: when two
\* or more threads call update_outcome at the same time after the interval has
\* passed, at most one of them is inside the evaluation at any moment, and the
\* regression is acted on once, not once per thread.
C23_EvaluationNotReentered ==
    /\ Cardinality({t \in Threads : InEvaluation(t)}) <= 1
    /\ Cardinality({i \in DOMAIN improvement_actions :
                       improvement_actions[i].improvement_type = "context_weighting"}) <= 1

\* C24: a read-only operation that runs while store or cleanup runs never
\* observes the record list and the index with different sizes.
C24_ReadersSeeEqualSizes ==
    ret.op = "stats" => ret.stats.total_signals = ret.stats.index_size

\* thread t waits at a "with self.lock:"
Waiting(t) == threads[t].pc \in {"acquire", "acquire_improvement"}

\* C26: under fair scheduling every started store, update_outcome, cleanup
\* and improvement-action emission eventually acquires the one exclusive lock
\* and completes; the lock is released on every path, also when the operation
\* raises, and no path tries to acquire it while holding it, also when an
\* outcome update starts an evaluation that emits actions.
C26_LockAcquiredAndReleased ==
    /\ [](\A t \in Threads : lock = t <=> threads[t].pc \in {"body", "index", "insert"})
    /\ [](\A t \in Threads : Waiting(t) => lock # t)
    /\ \A t \in Threads : Waiting(t) ~> (threads[t].pc = "done")

C26_Witness ==
    /\ \A t \in Threads : threads[t].pc = "done"
    /\ Len(improvement_actions) = 2
    /\ last_improvement_check = now
    /\ Len(signal_records) < Cardinality(signals)
    /\ lock = 0


====
